---- MODULE Spec2Model ----
(***************************************************************************)
(* Model of the event-batching and delivery pipeline of nrinsights.go:     *)
(* RegisterEvent -> events channel -> makeBatches/makeBatch -> batches     *)
(* channel -> sendBatches/sendUnsent/sendBatch, and StopAndFlush.          *)
(*                                                                         *)
(* The size limits of the source are scaled down so that every threshold   *)
(* is crossed within a few events; the comparisons are the source's.       *)
(* Records and batches carry a history id (arrival number, formation       *)
(* number) that the Go strings do not have; the ids are only read by the   *)
(* properties, never by the operations.                                    *)
(***************************************************************************)
EXTENDS Integers, Sequences, FiniteSets

\* ---- limits of the source, scaled (source value in the comment) ----
\* make(chan string, 10), nrinsights.go:96
EventsChanSize == 1
\* sendQueueSize = 20, nrinsights.go:28
sendQueueSize == 1
\* maxEventsPerCall = 1000, nrinsights.go:31
maxEventsPerCall == 3
\* maxSizePerCall = 5000000, nrinsights.go:34 (bytes)
maxSizePerCall == 8
\* defaultHttpTimeout = 10 s, fastHttpTimeout = 2 s (seconds)
defaultHttpTimeout == 10
fastHttpTimeout == 2

\* ---- bounds of the exploration ----
\* number of RegisterEvent calls made by the application
MaxEvents == 3

\* byte lengths json.Marshal may produce for an event ("{}" is the shortest)
RecordSizes == {2, 8}

\* what one HTTP exchange of sendBatch can come to
\*   newreq : http.NewRequest fails          doerr   : client.Do fails
\*   resp   : a response with a status code; readerr: reading its body fails
Responses ==
    { [kind |-> "newreq", status |-> 0, readerr |-> FALSE],
      [kind |-> "doerr",  status |-> 0, readerr |-> FALSE],
      [kind |-> "resp",   status |-> 200, readerr |-> FALSE],
      [kind |-> "resp",   status |-> 500, readerr |-> FALSE],
      [kind |-> "resp",   status |-> 500, readerr |-> TRUE] }

VARIABLES
    events,        \* c.events: buffered records
    eventsClosed,  \* close(c.events) has run
    blocked,       \* records of RegisterEvent calls parked on a full c.events
    eventQueue,    \* c.eventQueue
    queueBytes,    \* c.queueBytes
    batches,       \* c.batches: buffered batches
    batchesClosed, \* close(c.batches) has run
    eventsDone,    \* c.eventsDone: number of buffered values (capacity 1)
    batchesDone,   \* c.batchesDone: number of buffered values (capacity 1)
    unsent,        \* c.unsent, front first
    httpTimeout,   \* c.httpTimeout
    aggPc,         \* makeBatches: "select", "flush", "signal", "done", "panic"
    dispPc,        \* sendBatches: "range", "pass", "final", "signal", "done"
    elem,          \* sendUnsent: index in unsent of the element to attempt
    stopPc,        \* StopAndFlush: "idle", "waitEvents", "closeBatches",
                   \*               "waitBatches", "returned"
    calls,         \* history: number of RegisterEvent calls made
    rejected,      \* history: ids of calls that returned an error
    info           \* history: one entry per batch formed, in formation order

vars == <<events, eventsClosed, blocked, eventQueue, queueBytes, batches,
          batchesClosed, eventsDone, batchesDone, unsent, httpTimeout,
          aggPc, dispPc, elem, stopPc, calls, rejected, info>>

chanVars == <<events, eventsClosed, blocked>>
aggVars  == <<eventQueue, queueBytes, aggPc>>
dispVars == <<unsent, httpTimeout, dispPc, elem>>

\* ---- pure helpers ----
RECURSIVE SumLen(_)
SumLen(q) == IF q = <<>> THEN 0 ELSE Head(q).len + SumLen(Tail(q))

\* len("[" + strings.Join(q, ",") + "]")
BatchBytes(q) == 2 + SumLen(q) + (IF Len(q) = 0 THEN 0 ELSE Len(q) - 1)

\* (variant: the element is left in the list)
Remove_Keep(l, i) == l

\* list.Remove of the i-th element
Remove(l, i) == SubSeq(l, 1, i - 1) \o SubSeq(l, i + 1, Len(l))

\* (variant: list.PushFront)
PushFront(l, b) == <<b>> \o l

\* list.PushBack
PushBack(l, b) == Append(l, b)

\* (variant: only the byte count is tested)
NearLimit_BytesOnly(q, bytes) == bytes * 100 > maxSizePerCall * 90

\* the early-batch test of makeBatches
NearLimit(q, bytes) ==
    \/ Len(q) * 100 > maxEventsPerCall * 90
    \/ bytes * 100 > maxSizePerCall * 90

\* the value sendBatch returns for an exchange
sendBatch(r) ==
    IF r.kind = "newreq" THEN FALSE
    ELSE IF r.kind = "doerr" THEN FALSE
    ELSE IF r.status # 200
         THEN (IF r.readerr THEN FALSE ELSE TRUE)
         ELSE TRUE

Init ==
    /\ events = <<>>
    /\ eventsClosed = FALSE
    /\ blocked = <<>>
    /\ eventQueue = <<>>
    /\ queueBytes = 0
    /\ batches = <<>>
    /\ batchesClosed = FALSE
    /\ eventsDone = 0
    /\ batchesDone = 0
    /\ unsent = <<>>
    /\ httpTimeout = defaultHttpTimeout
    /\ aggPc = "select"
    /\ dispPc = "range"
    /\ elem = 0
    /\ stopPc = "idle"
    /\ calls = 0
    /\ rejected = {}
    /\ info = <<>>

\* ---- history bookkeeping (read by the properties only) ----
NewInfo(q, fate) ==
    [recs |-> q,             \* the records joined into the batch
     fate |-> fate,          \* "queued", "dropped" (channel full), "removed"
     by |-> aggPc,           \* "select": tick or early batch; "flush": the last
     attempts |-> 0,         \* sendBatch calls made for it
     n200 |-> 0,             \* responses with status 200 it got
     last |-> "none",        \* outcome of its latest attempt
     finalTried |-> FALSE]   \* its latest attempt was in the last sendUnsent

Attempted(i, r, ok) ==
    [i EXCEPT !.attempts = @ + 1,
              !.n200 = IF r.kind = "resp" /\ r.status = 200 THEN @ + 1 ELSE @,
              !.last = IF r.kind # "resp" THEN "err"
                       ELSE IF r.status = 200 THEN "ok" ELSE "non200",
              !.finalTried = (dispPc = "final"),
              !.fate = IF ok THEN "removed" ELSE @]

\* ---- RegisterEvent (nrinsights.go:236-245) ----
\* (variant: no return after the error, the empty result is sent on)
RegisterEventError_SendsAnyway ==
    /\ stopPc = "idle" /\ blocked = <<>> /\ calls < MaxEvents
    /\ LET rec == [id |-> calls + 1, len |-> 2] IN
       IF Len(events) < EventsChanSize
       THEN events' = Append(events, rec) /\ blocked' = blocked
       ELSE blocked' = <<rec>> /\ events' = events
    /\ calls' = calls + 1
    /\ rejected' = rejected \cup {calls + 1}
    /\ UNCHANGED <<eventsClosed, aggVars, dispVars, batches, batchesClosed,
                   eventsDone, batchesDone, stopPc, info>>

\* json.Marshal fails: the error is returned, nothing is sent.
RegisterEventError ==
    /\ stopPc = "idle" /\ blocked = <<>> /\ calls < MaxEvents
    /\ calls' = calls + 1
    /\ rejected' = rejected \cup {calls + 1}
    /\ UNCHANGED <<chanVars, aggVars, dispVars, batches, batchesClosed,
                   eventsDone, batchesDone, stopPc, info>>

\* json.Marshal succeeds: c.events <- record. The send completes at once when
\* the buffer has room; otherwise the call parks until a receive makes room.
RegisterEvent ==
    /\ stopPc = "idle" /\ blocked = <<>> /\ calls < MaxEvents
    /\ \E n \in RecordSizes :
         LET rec == [id |-> calls + 1, len |-> n] IN
         IF Len(events) < EventsChanSize
         THEN events' = Append(events, rec) /\ blocked' = blocked
         ELSE blocked' = <<rec>> /\ events' = events
    /\ calls' = calls + 1
    /\ UNCHANGED <<eventsClosed, aggVars, dispVars, batches, batchesClosed,
                   eventsDone, batchesDone, stopPc, rejected, info>>

\* (variant: a plain send, "c.batches <- batch", which waits for room)
makeBatch_Blocking(q, bytes, pc) ==
    IF Len(q) = 0
    THEN /\ eventQueue' = q /\ queueBytes' = bytes /\ aggPc' = pc
         /\ UNCHANGED <<batches, info>>
    ELSE /\ ~batchesClosed
         /\ Len(batches) < sendQueueSize
         /\ batches' = Append(batches, Len(info) + 1)
         /\ info' = Append(info, NewInfo(q, "queued"))
         /\ eventQueue' = <<>>
         /\ queueBytes' = 0
         /\ aggPc' = pc

\* (variant: the pending sequence and byte count are not reset)
makeBatch_NoReset(q, bytes, pc) ==
    IF Len(q) = 0
    THEN /\ eventQueue' = q /\ queueBytes' = bytes /\ aggPc' = pc
         /\ UNCHANGED <<batches, info>>
    ELSE /\ ~batchesClosed
         /\ IF Len(batches) < sendQueueSize
            THEN /\ batches' = Append(batches, Len(info) + 1)
                 /\ info' = Append(info, NewInfo(q, "queued"))
            ELSE /\ batches' = batches
                 /\ info' = Append(info, NewInfo(q, "dropped"))
         /\ eventQueue' = q
         /\ queueBytes' = bytes
         /\ aggPc' = pc

\* (variant: no test for an empty pending sequence)
makeBatch_NoEmptyTest(q, bytes, pc) ==
    /\ ~batchesClosed
    /\ IF Len(batches) < sendQueueSize
       THEN /\ batches' = Append(batches, Len(info) + 1)
            /\ info' = Append(info, NewInfo(q, "queued"))
       ELSE /\ batches' = batches
            /\ info' = Append(info, NewInfo(q, "dropped"))
    /\ eventQueue' = <<>>
    /\ queueBytes' = 0
    /\ aggPc' = pc

\* (variant: a discarded batch's records stay pending)
makeBatch_KeepOnDrop(q, bytes, pc) ==
    IF Len(q) = 0
    THEN /\ eventQueue' = q /\ queueBytes' = bytes /\ aggPc' = pc
         /\ UNCHANGED <<batches, info>>
    ELSE /\ ~batchesClosed
         /\ IF Len(batches) < sendQueueSize
            THEN /\ batches' = Append(batches, Len(info) + 1)
                 /\ info' = Append(info, NewInfo(q, "queued"))
                 /\ eventQueue' = <<>>
                 /\ queueBytes' = 0
            ELSE /\ batches' = batches
                 /\ info' = Append(info, NewInfo(q, "dropped"))
                 /\ eventQueue' = q
                 /\ queueBytes' = bytes
         /\ aggPc' = pc

\* (variant: the byte count is not reset)
makeBatch_KeepBytes(q, bytes, pc) ==
    IF Len(q) = 0
    THEN /\ eventQueue' = q /\ queueBytes' = bytes /\ aggPc' = pc
         /\ UNCHANGED <<batches, info>>
    ELSE /\ ~batchesClosed
         /\ IF Len(batches) < sendQueueSize
            THEN /\ batches' = Append(batches, Len(info) + 1)
                 /\ info' = Append(info, NewInfo(q, "queued"))
            ELSE /\ batches' = batches
                 /\ info' = Append(info, NewInfo(q, "dropped"))
         /\ eventQueue' = <<>>
         /\ queueBytes' = bytes
         /\ aggPc' = pc

\* ---- makeBatch (nrinsights.go:275-289), called with the pending sequence
\* and byte count its caller has just computed; pc is where the caller goes on.
makeBatch(q, bytes, pc) ==
    IF Len(q) = 0
    THEN /\ eventQueue' = q /\ queueBytes' = bytes /\ aggPc' = pc
         /\ UNCHANGED <<batches, info>>
    ELSE IF batchesClosed
    THEN \* a send on a closed channel panics, also inside a select
         /\ aggPc' = "panic"
         /\ eventQueue' = q /\ queueBytes' = bytes
         /\ UNCHANGED <<batches, info>>
    ELSE /\ IF Len(batches) < sendQueueSize
            THEN /\ batches' = Append(batches, Len(info) + 1)
                 /\ info' = Append(info, NewInfo(q, "queued"))
            ELSE /\ batches' = batches
                 /\ info' = Append(info, NewInfo(q, "dropped"))
         /\ eventQueue' = <<>>
         /\ queueBytes' = 0
         /\ aggPc' = pc

\* ---- makeBatches (nrinsights.go:247-273) ----
\* case e, open := <-c.events, open: append, count, batch early near a limit.
\* A receive from a full buffer lets a parked sender's record in.
AggRecv ==
    /\ aggPc = "select" /\ events # <<>>
    /\ LET e == Head(events)
           q == Append(eventQueue, e)
           bytes == queueBytes + e.len
       IN /\ events' = Tail(events) \o blocked
          /\ blocked' = <<>>
          /\ IF NearLimit(q, bytes)
             THEN makeBatch(q, bytes, "select")
             ELSE /\ eventQueue' = q /\ queueBytes' = bytes
                  /\ UNCHANGED <<aggPc, batches, info>>
    /\ UNCHANGED <<eventsClosed, dispVars, batchesClosed, eventsDone,
                   batchesDone, stopPc, calls, rejected>>

\* (variant: "break" leaves the select only and the loop goes round again)
AggClosed_BreakSelect ==
    /\ aggPc = "select" /\ events = <<>> /\ eventsClosed
    /\ UNCHANGED vars

\* case e, open := <-c.events, !open: break outer
AggClosed ==
    /\ aggPc = "select" /\ events = <<>> /\ eventsClosed
    /\ aggPc' = "flush"
    /\ UNCHANGED <<chanVars, eventQueue, queueBytes, dispVars, batches,
                   batchesClosed, eventsDone, batchesDone, stopPc,
                   calls, rejected, info>>

\* case <-ticker.C: c.makeBatch(); the ticker may have ticked at any time
AggTick ==
    /\ aggPc = "select"
    /\ makeBatch(eventQueue, queueBytes, "select")
    /\ UNCHANGED <<chanVars, dispVars, batchesClosed, eventsDone,
                   batchesDone, stopPc, calls, rejected>>

\* (variant: the loop is left without the last makeBatch)
AggFinalFlush_Skip ==
    /\ aggPc = "flush"
    /\ aggPc' = "signal"
    /\ UNCHANGED <<chanVars, eventQueue, queueBytes, dispVars, batches,
                   batchesClosed, eventsDone, batchesDone, stopPc, calls,
                   rejected, info>>

\* c.makeBatch() // flush remaining
AggFinalFlush ==
    /\ aggPc = "flush"
    /\ makeBatch(eventQueue, queueBytes, "signal")
    /\ UNCHANGED <<chanVars, dispVars, batchesClosed, eventsDone,
                   batchesDone, stopPc, calls, rejected>>

\* c.eventsDone <- true (capacity 1, one sender: never blocks)
AggSignal ==
    /\ aggPc = "signal"
    /\ eventsDone' = eventsDone + 1
    /\ aggPc' = "done"
    /\ UNCHANGED <<chanVars, eventQueue, queueBytes, dispVars, batches,
                   batchesClosed, batchesDone, stopPc, calls, rejected,
                   info>>

\* ---- sendBatches (nrinsights.go:291-301) ----
\* for batch := range c.batches: PushBack, then sendUnsent starts at Front()
DispRecv ==
    /\ dispPc = "range" /\ batches # <<>>
    /\ unsent' = PushBack(unsent, Head(batches))
    /\ batches' = Tail(batches)
    /\ dispPc' = "pass"
    /\ elem' = 1
    /\ UNCHANGED <<chanVars, aggVars, batchesClosed, eventsDone, batchesDone,
                   httpTimeout, stopPc, calls, rejected, info>>

\* (variant: the timeout is not lowered)
DispClosed_KeepTimeout ==
    /\ dispPc = "range" /\ batches = <<>> /\ batchesClosed
    /\ IF unsent = <<>>
       THEN dispPc' = "signal" /\ elem' = 0
       ELSE dispPc' = "final" /\ elem' = 1
    /\ UNCHANGED <<chanVars, aggVars, batches, batchesClosed, eventsDone,
                   batchesDone, unsent, httpTimeout, stopPc, calls, rejected,
                   info>>

\* the range ends: the channel is closed and drained; lower the timeout and
\* start the last sendUnsent
DispClosed ==
    /\ dispPc = "range" /\ batches = <<>> /\ batchesClosed
    /\ httpTimeout' = fastHttpTimeout
    /\ IF unsent = <<>>
       THEN dispPc' = "signal" /\ elem' = 0
       ELSE dispPc' = "final" /\ elem' = 1
    /\ UNCHANGED <<chanVars, aggVars, batches, batchesClosed, eventsDone,
                   batchesDone, unsent, stopPc, calls, rejected, info>>

\* (variant: next is taken after the removal, elem = elem.Next(), so the
\* element that follows a removed one is passed over)
SendUnsentStep_SkipAfterRemove ==
    /\ dispPc \in {"pass", "final"}
    /\ \E r \in Responses :
         LET b == unsent[elem]
             ok == sendBatch(r)
             left == IF ok THEN Remove(unsent, elem) ELSE unsent
             next == elem + 1
         IN /\ unsent' = left
            /\ info' = [info EXCEPT ![b] = Attempted(@, r, ok)]
            /\ IF next > Len(left)
               THEN /\ elem' = 0
                    /\ dispPc' = IF dispPc = "pass" THEN "range" ELSE "signal"
               ELSE /\ elem' = next
                    /\ dispPc' = dispPc
    /\ UNCHANGED <<chanVars, aggVars, batches, batchesClosed, eventsDone,
                   batchesDone, httpTimeout, stopPc, calls, rejected>>

\* (variant: a failed batch is moved to the back of the list)
SendUnsentStep_RequeueFailed ==
    /\ dispPc \in {"pass", "final"}
    /\ \E r \in Responses :
         LET b == unsent[elem]
             ok == sendBatch(r)
             left == IF ok THEN Remove(unsent, elem)
                     ELSE Append(Remove(unsent, elem), b)
             next == IF ok THEN elem ELSE elem + 1
         IN /\ unsent' = left
            /\ info' = [info EXCEPT ![b] = Attempted(@, r, ok)]
            /\ IF next > Len(left)
               THEN /\ elem' = 0
                    /\ dispPc' = IF dispPc = "pass" THEN "range" ELSE "signal"
               ELSE /\ elem' = next
                    /\ dispPc' = dispPc
    /\ UNCHANGED <<chanVars, aggVars, batches, batchesClosed, eventsDone,
                   batchesDone, httpTimeout, stopPc, calls, rejected>>

\* ---- sendUnsent (nrinsights.go:303-312): one turn of its loop ----
\* next = elem.Next(); if c.sendBatch(elem.Value) { c.unsent.Remove(elem) }
SendUnsentStep ==
    /\ dispPc \in {"pass", "final"}
    /\ \E r \in Responses :
         LET b == unsent[elem]
             ok == sendBatch(r)
             left == IF ok THEN Remove(unsent, elem) ELSE unsent
             next == IF ok THEN elem ELSE elem + 1
         IN /\ unsent' = left
            /\ info' = [info EXCEPT ![b] = Attempted(@, r, ok)]
            /\ IF next > Len(left)
               THEN /\ elem' = 0
                    /\ dispPc' = IF dispPc = "pass" THEN "range" ELSE "signal"
               ELSE /\ elem' = next
                    /\ dispPc' = dispPc
    /\ UNCHANGED <<chanVars, aggVars, batches, batchesClosed, eventsDone,
                   batchesDone, httpTimeout, stopPc, calls, rejected>>

\* c.batchesDone <- true
DispSignal ==
    /\ dispPc = "signal"
    /\ batchesDone' = batchesDone + 1
    /\ dispPc' = "done"
    /\ UNCHANGED <<chanVars, aggVars, batches, batchesClosed, eventsDone,
                   unsent, httpTimeout, elem, stopPc, calls, rejected,
                   info>>

\* ---- StopAndFlush (nrinsights.go:117-122) ----
\* close(c.events); the caller has stopped producing (no call in progress)
StopCloseEvents ==
    /\ stopPc = "idle" /\ blocked = <<>>
    /\ eventsClosed' = TRUE
    /\ stopPc' = "waitEvents"
    /\ UNCHANGED <<events, blocked, aggVars, dispVars, batches, batchesClosed,
                   eventsDone, batchesDone, calls, rejected, info>>

\* (variant: StopAndFlush does not wait for the aggregator)
StopWaitEvents_NoWait ==
    /\ stopPc = "waitEvents"
    /\ stopPc' = "closeBatches"
    /\ UNCHANGED <<chanVars, aggVars, dispVars, batches, batchesClosed,
                   eventsDone, batchesDone, calls, rejected, info>>

\* <-c.eventsDone
StopWaitEvents ==
    /\ stopPc = "waitEvents" /\ eventsDone > 0
    /\ eventsDone' = eventsDone - 1
    /\ stopPc' = "closeBatches"
    /\ UNCHANGED <<chanVars, aggVars, dispVars, batches, batchesClosed,
                   batchesDone, calls, rejected, info>>

\* close(c.batches)
StopCloseBatches ==
    /\ stopPc = "closeBatches"
    /\ batchesClosed' = TRUE
    /\ stopPc' = "waitBatches"
    /\ UNCHANGED <<chanVars, aggVars, dispVars, batches, eventsDone,
                   batchesDone, calls, rejected, info>>

\* <-c.batchesDone, return
StopWaitBatches ==
    /\ stopPc = "waitBatches" /\ batchesDone > 0
    /\ batchesDone' = batchesDone - 1
    /\ stopPc' = "returned"
    /\ UNCHANGED <<chanVars, aggVars, dispVars, batches, batchesClosed,
                   eventsDone, calls, rejected, info>>

Next ==
    \/ RegisterEventError
    \/ RegisterEvent
    \/ AggRecv
    \/ AggClosed
    \/ AggTick
    \/ AggFinalFlush
    \/ AggSignal
    \/ DispRecv
    \/ DispClosed
    \/ SendUnsentStep
    \/ DispSignal
    \/ StopCloseEvents
    \/ StopWaitEvents
    \/ StopCloseBatches
    \/ StopWaitBatches

Spec == Init /\ [][Next]_vars

\* the aggregator alone is scheduled fairly: a receive that stays possible
\* is eventually made (Go's select picks among the ready cases at random)
LiveSpec == Init /\ [][Next]_vars /\ WF_vars(AggRecv)

\* both loops and StopAndFlush are scheduled, and every HTTP exchange ends
\* (with a response, an error or the timeout)
TermSpec ==
    /\ Init /\ [][Next]_vars
    /\ WF_vars(AggRecv) /\ WF_vars(AggClosed)
    /\ WF_vars(AggFinalFlush) /\ WF_vars(AggSignal)
    /\ WF_vars(DispRecv) /\ WF_vars(DispClosed)
    /\ WF_vars(SendUnsentStep) /\ WF_vars(DispSignal)
    /\ WF_vars(StopWaitEvents) /\ WF_vars(StopCloseBatches)
    /\ WF_vars(StopWaitBatches)

\* ---- vocabulary of the properties ----
Batches == 1..Len(info)
InUnsent(b) == \E i \in 1..Len(unsent) : unsent[i] = b
PosUnsent(b) == CHOOSE i \in 1..Len(unsent) : unsent[i] = b
RecIds(q) == {q[i].id : i \in 1..Len(q)}
Accepted == (1..calls) \ (rejected \cup RecIds(blocked))
\* no sendUnsent is under way
PassOver == dispPc \in {"range", "signal", "done"}

\* C1: a batch whose delivery attempt got a response with a status other than
\* 200 is still in the unsent list when that pass of sendUnsent ends (and so
\* is attempted again on the next pass).
C1_Non200StaysUnsent ==
    PassOver => \A b \in Batches : info[b].last = "non200" => InUnsent(b)

\* C2: the unsent list never holds more than sendQueueSize batches.
C2_UnsentBounded == Len(unsent) <= sendQueueSize

\* C3: when StopAndFlush has returned, every accepted event is in a batch
\* that got a 200, or was attempted in the last sendUnsent and failed, or was
\* discarded at formation because the batches channel was full.
C3_AcceptedAccounted ==
    stopPc = "returned" =>
        \A id \in Accepted :
            \E b \in Batches :
                /\ id \in RecIds(info[b].recs)
                /\ \/ info[b].n200 >= 1
                   \/ info[b].finalTried /\ info[b].last # "ok"
                   \/ info[b].fate = "dropped"

\* C4: when StopAndFlush has returned nothing is buffered upstream of
\* delivery: both channels are drained, the pending sequence is empty with a
\* byte count of 0, and makeBatches and sendBatches have both finished.
C4_NothingBufferedAtReturn ==
    stopPc = "returned" =>
        /\ events = <<>> /\ blocked = <<>>
        /\ eventQueue = <<>> /\ queueBytes = 0
        /\ batches = <<>>
        /\ aggPc = "done" /\ dispPc = "done"

\* the last makeBatch found pending records and the last sendUnsent a batch
C4_Witness ==
    /\ stopPc = "returned"
    /\ \E b \in Batches : info[b].by = "flush" /\ info[b].finalTried

\* C5: a flush that finds the batches channel full does not wait: the batch
\* is discarded, the pending sequence and the byte count are reset and the
\* loop goes on; and whatever the dispatcher is doing, every step the
\* aggregator is at can be taken.
AggCanStep ==
    /\ aggPc = "select" => ENABLED AggTick
    /\ aggPc = "select" /\ events # <<>> => ENABLED AggRecv
    /\ aggPc = "flush" => ENABLED AggFinalFlush
    /\ aggPc = "signal" => ENABLED AggSignal

FlushOnFullChannel ==
    (Len(batches) = sendQueueSize /\ Len(info') > Len(info)) =>
        /\ batches' = batches
        /\ info'[Len(info')].fate = "dropped"
        /\ eventQueue' = <<>> /\ queueBytes' = 0
        /\ aggPc' \in {"select", "signal"}

C5_FlushNeverBlocks == [](AggCanStep) /\ [][FlushOnFullChannel]_vars

\* a batch has been discarded, and the pending sequence reset, while the
\* dispatcher was inside an HTTP attempt and the batches channel was full
C5_Witness ==
    /\ dispPc = "pass"
    /\ Len(batches) = sendQueueSize
    /\ info # <<>> /\ info[Len(info)].fate = "dropped"
    /\ eventQueue = <<>> /\ aggPc = "select"

\* C6: under fairness of the aggregator alone, a RegisterEvent call parked on
\* the full events channel eventually completes.
C6_RegisterEventCompletes == (blocked # <<>>) ~> (blocked = <<>>)

\* a call is parked on the full events channel while the dispatcher is
\* inside an HTTP attempt
C6_Witness ==
    /\ blocked # <<>>
    /\ Len(events) = EventsChanSize
    /\ dispPc = "pass"

\* C7: the attempt that gets a 200 takes the batch out of the unsent list,
\* and a batch that has got a 200 is never attempted again (so it gets at
\* most one 200).
C7_NoAttemptAfter200 ==
    [][\A b \in Batches :
          /\ info'[b].n200 > info[b].n200 =>
                 info'[b].n200 = 1 /\ ~InUnsent(b)'
          /\ info[b].n200 >= 1 =>
                 info'[b].attempts = info[b].attempts /\ ~InUnsent(b)']_vars

\* a batch got its 200 and a later batch was attempted after it
C7_Witness ==
    \E a, b \in Batches :
        /\ a < b
        /\ info[a].n200 = 1 /\ info[a].attempts >= 2
        /\ info[b].attempts >= 1

\* C8 as stated: a batch never gets its 200 after a batch formed later has
\* got one.
C8_DeliveredInFormationOrder ==
    [][\A a, b \in Batches :
          a < b /\ info[b].n200 >= 1 => info'[a].n200 = info[a].n200]_vars

\* C8 amended: within a pass the attempts are made in formation order: when a
\* batch gets its 200, every batch formed earlier that is still in the unsent
\* list stands before it there and has been attempted, and failed, earlier in
\* the same pass.
C8_EarlierTriedFirst ==
    [][\A a, b \in Batches :
          (a < b /\ info'[b].n200 > info[b].n200 /\ InUnsent(a)) =>
              /\ PosUnsent(a) < elem
              /\ info[a].last \in {"err", "non200"}
              /\ InUnsent(a)']_vars

\* a later batch has got its 200 while an earlier one, which failed, waits
C8_Witness ==
    \E a, b \in Batches :
        /\ a < b
        /\ info[b].n200 = 1
        /\ InUnsent(a) /\ info[a].last = "err"

\* C9: no batch formed is longer than maxSizePerCall bytes.
C9_BatchWithinByteLimit ==
    \A b \in Batches : BatchBytes(info[b].recs) <= maxSizePerCall

\* C10: the pending sequence never holds more than 90% of maxEventsPerCall
\* records between two steps of the aggregator, and no batch formed holds
\* more than maxEventsPerCall records.
C10_CountLimit ==
    /\ Len(eventQueue) * 100 <= maxEventsPerCall * 90
    /\ \A b \in Batches : Len(info[b].recs) <= maxEventsPerCall

\* a batch was formed early on the record count alone
C10_Witness ==
    \E b \in Batches :
        /\ Len(info[b].recs) * 100 > maxEventsPerCall * 90
        /\ SumLen(info[b].recs) * 100 <= maxSizePerCall * 90

\* ---- more vocabulary ----
RECURSIVE Increasing(_)
Increasing(q) ==
    \/ Len(q) <= 1
    \/ q[1].id < q[2].id /\ Increasing(Tail(q))
BatchedIds == UNION {RecIds(info[b].recs) : b \in Batches}
\* the step is a call of sendBatch for batch b
AttemptOf(b) == info'[b].attempts > info[b].attempts
\* the records received by the aggregator since its last flush
SinceLastFlush == Accepted \ (BatchedIds \cup RecIds(events))

\* C11: a tick that finds a non-empty pending sequence forms exactly one
\* batch, made of exactly the records received since the last flush, each
\* once and in arrival order, and leaves the pending sequence empty.
C11_TickFormsOneBatch ==
    [][(AggTick /\ eventQueue # <<>>) =>
          /\ Len(info') = Len(info) + 1
          /\ LET new == info'[Len(info')].recs
             IN /\ new = eventQueue
                /\ RecIds(new) = SinceLastFlush
                /\ Len(new) = Cardinality(SinceLastFlush)
                /\ Increasing(new)
          /\ eventQueue' = <<>>]_vars

\* a batch of several records, below both thresholds, formed on a tick
C11_Witness ==
    \E b \in Batches :
        /\ info[b].by = "select"
        /\ Len(info[b].recs) >= 2
        /\ ~NearLimit(info[b].recs, SumLen(info[b].recs))

\* C12 as stated: an attempt made before StopAndFlush is called uses the
\* default timeout, an attempt made after it has been called the fast one.
C12_FastTimeoutOnceStopping ==
    [][\A b \in Batches :
          AttemptOf(b) =>
              httpTimeout = IF stopPc = "idle" THEN defaultHttpTimeout
                            ELSE fastHttpTimeout]_vars

\* C12 amended: the attempts of the last sendUnsent, made once the batches
\* channel is closed and drained, use the fast timeout; every other attempt,
\* also one made after StopAndFlush was called, uses the default timeout.
C12_FastTimeoutInLastPass ==
    [][\A b \in Batches :
          AttemptOf(b) =>
              httpTimeout = IF dispPc = "final" THEN fastHttpTimeout
                            ELSE defaultHttpTimeout]_vars

\* after StopAndFlush was called one batch was attempted in an ordinary pass
\* and another in the last pass
C12_Witness ==
    /\ stopPc # "idle"
    /\ httpTimeout = fastHttpTimeout
    /\ \E a, b \in Batches :
          /\ info[a].by = "flush" /\ info[a].attempts >= 2
          /\ info[a].finalTried
          /\ info[b].attempts >= 1 /\ ~info[b].finalTried

\* C13: a flush that finds the pending sequence empty changes nothing, and
\* every batch in the batches channel or in the unsent list has a record.
EmptyFlush ==
    ((AggTick \/ AggFinalFlush) /\ eventQueue = <<>>) =>
        UNCHANGED <<batches, unsent, info, eventQueue, queueBytes>>

NoEmptyBatch ==
    /\ \A i \in 1..Len(batches) : Len(info[batches[i]].recs) >= 1
    /\ \A i \in 1..Len(unsent) : Len(info[unsent[i]].recs) >= 1

C13_EmptyFlushIsNoOp == [](NoEmptyBatch) /\ [][EmptyFlush]_vars

\* the last flush found nothing pending, after batches had been formed
C13_Witness ==
    /\ aggPc = "signal"
    /\ eventQueue = <<>>
    /\ info # <<>>
    /\ \A b \in Batches : info[b].by = "select"

\* C14: when StopAndFlush has returned every batch that got onto the batches
\* channel has been attempted at least once, and the last sendUnsent attempts
\* every batch it finds in the unsent list exactly once.
AttemptedBeforeReturn ==
    stopPc = "returned" =>
        \A b \in Batches : info[b].fate # "dropped" => info[b].attempts >= 1

LastPassProgress ==
    /\ dispPc = "final" =>
          \A i \in 1..Len(unsent) : info[unsent[i]].finalTried <=> i < elem
    /\ dispPc \in {"signal", "done"} =>
          \A i \in 1..Len(unsent) : info[unsent[i]].finalTried

OncePerLastPass ==
    \A b \in Batches :
        (dispPc = "final" /\ AttemptOf(b)) =>
            /\ ~info[b].finalTried
            /\ info'[b].attempts = info[b].attempts + 1
            /\ info'[b].finalTried

C14_AttemptedAtLeastOnce ==
    [](AttemptedBeforeReturn /\ LastPassProgress) /\ [][OncePerLastPass]_vars

\* StopAndFlush has returned, two batches were attempted in the last pass:
\* one of them is still unsent, the other was removed
C14_Witness ==
    /\ stopPc = "returned"
    /\ \E a, b \in Batches :
          /\ InUnsent(a) /\ info[a].finalTried /\ info[a].attempts >= 2
          /\ ~InUnsent(b) /\ info[b].finalTried

\* C15: a RegisterEvent call whose event cannot be serialized changes nothing
\* in the pipeline, and its event is in no channel, pending sequence or batch.
InPipeline ==
    RecIds(events) \cup RecIds(blocked) \cup RecIds(eventQueue) \cup BatchedIds

ErrorCallFrame ==
    rejected' # rejected =>
        UNCHANGED <<events, eventsClosed, blocked, eventQueue, queueBytes,
                    batches, batchesClosed, unsent, info>>

C15_RejectedNeverEnters ==
    [](rejected \cap InPipeline = {}) /\ [][ErrorCallFrame]_vars

\* a call was rejected and a later event has been delivered
C15_Witness ==
    \E id \in rejected :
        \E b \in Batches :
            /\ info[b].n200 = 1
            /\ \E later \in RecIds(info[b].recs) : later > id

\* C16: an attempt that fails with a transport or request-construction error
\* leaves the unsent list and every other batch as they were and the pass
\* goes on with the next element; the unsent list is always in formation
\* order and a pass attempts its batches in formation order, none twice.
UnsentInFormationOrder ==
    \A i, j \in 1..Len(unsent) : i < j => unsent[i] < unsent[j]

FailedAttemptFrame ==
    \A b \in Batches :
        (AttemptOf(b) /\ info'[b].last = "err") =>
            /\ unsent' = unsent /\ batches' = batches
            /\ \A c \in Batches : c # b => info'[c] = info[c]
            /\ IF elem < Len(unsent)
               THEN elem' = elem + 1 /\ dispPc' = dispPc
               ELSE dispPc' \in {"range", "signal"}

PassInFormationOrder ==
    \A b \in Batches :
        (AttemptOf(b) /\ dispPc' \in {"pass", "final"}) =>
            /\ b = unsent[elem]
            /\ unsent'[elem'] > b

C16_FailedBatchStaysInPlace ==
    /\ [](UnsentInFormationOrder)
    /\ [][FailedAttemptFrame /\ PassInFormationOrder]_vars

\* a pass is over in which the first batch failed with an error and stayed
\* first, and the batch after it was attempted too
C16_Witness ==
    /\ dispPc = "range"
    /\ Len(unsent) >= 2
    /\ info[unsent[1]].last = "err" /\ info[unsent[1]].attempts >= 2
    /\ info[unsent[2]].attempts >= 1

\* C17: close(c.batches) runs only after the aggregator has made its last
\* flush and signalled: makeBatch never sends on a closed channel, and when
\* the dispatcher has seen the channel closed the aggregator is done and its
\* last batch, if the channel took it, has reached the unsent list.
C17_ShutdownOrdered ==
    /\ aggPc # "panic"
    /\ stopPc \in {"closeBatches", "waitBatches", "returned"} => aggPc = "done"
    /\ batchesClosed => aggPc = "done"
    /\ dispPc \in {"final", "signal", "done"} =>
          /\ aggPc = "done" /\ batches = <<>>
          /\ \A b \in Batches :
                info[b].by = "flush" /\ info[b].fate # "dropped" =>
                    InUnsent(b) \/ info[b].attempts >= 1

\* the dispatcher has seen the channel closed and holds the batch of the
\* aggregator's last flush
C17_Witness ==
    /\ dispPc = "final"
    /\ \E b \in Batches : info[b].by = "flush" /\ InUnsent(b)

\* C18: once StopAndFlush has been called it returns, given that the two
\* loops and StopAndFlush are scheduled and every HTTP attempt ends.
C18_StopAndFlushReturns == (stopPc = "waitEvents") ~> (stopPc = "returned")

\* StopAndFlush has returned although no attempt ever succeeded and batches
\* are left in the unsent list
C18_Witness ==
    /\ stopPc = "returned"
    /\ Len(unsent) >= 2
    /\ \A b \in Batches : info[b].n200 = 0 /\ info[b].last # "non200"

\* C19: every accepted record is in exactly one place: a batch formed, the
\* pending sequence, the events channel or a parked call; none is in two
\* batches, and a discarded batch's records are not pending again.
RECURSIVE BatchedRecs(_)
BatchedRecs(n) ==
    IF n = 0 THEN <<>> ELSE BatchedRecs(n - 1) \o info[n].recs

AllRecs == BatchedRecs(Len(info)) \o eventQueue \o events \o blocked

C19_RecordsConserved ==
    /\ Increasing(AllRecs)
    /\ RecIds(AllRecs) = (1..calls) \ rejected

\* a batch was discarded and a later batch got onto the channel
C19_Witness ==
    \E a, b \in Batches :
        /\ a < b
        /\ info[a].fate = "dropped"
        /\ info[b].fate # "dropped"

\* C20: queueBytes is the sum of the lengths of the pending records, and a
\* flush that forms a batch resets both, whether the batch is pushed or
\* discarded.
FlushResets ==
    Len(info') > Len(info) => eventQueue' = <<>> /\ queueBytes' = 0

C20_QueueBytesIsSum ==
    [](queueBytes = SumLen(eventQueue)) /\ [][FlushResets]_vars

\* records are pending again after a flush whose batch was discarded
C20_Witness ==
    /\ info # <<>> /\ info[Len(info)].fate = "dropped"
    /\ eventQueue # <<>>
    /\ queueBytes > 0

====
